---- MODULE Spec2Model ----
(***************************************************************************)
(* XML Line Mapping Tool (appFinal.py, appVersion2.py).                    *)
(*                                                                         *)
(* A line is a sequence of one-character strings.  Offsets into a line are *)
(* 0-based, as in Python; TLA+ sequences are 1-based, so the character at  *)
(* Python offset k of line is line[k + 1].  Line numbers (the values       *)
(* stored in ops and mappings) are 1-based in the program as well.         *)
(***************************************************************************)
EXTENDS Integers, Sequences, FiniteSets, TLC

VARIABLES
    app,             \* which program runs: "appFinal" or "appVersion2"
    \* ---- map_lines ----
    pc,              \* position inside map_lines
    original_lines,  \* argument: normalized lines of the original file
    new_lines,       \* argument: normalized lines of the version file
    dp,              \* LCS table, (n+1) x (m+1)
    fi, fj,          \* loop indices of the table construction (0-based)
    i, j,            \* backtracking cursor
    ops,             \* list of <<kind, orig, new>>
    mappings,        \* list of <<orig_line_number, new_line_number>>
    returned,        \* what map_lines returned: "pending", "list" or "None"
    \* ---- read_lines / normalize_line inputs ----
    text_s,          \* a raw line s
    comment_c,       \* a comment body c
    disk,            \* the files: path -> raw lines, line endings removed
    \* ---- main ----
    mpc,             \* position inside main
    original_path,
    typed,           \* the answers read by input() so far, each stripped
    test_name,
    num_versions_str,
    num_versions,
    version_paths,
    vidx,            \* index of the version being processed (0-based)
    all_mappings,
    stats,           \* printed per-version counts
    files_read,      \* paths handed to open() for reading, in order
    stderr,          \* error messages printed
    written,         \* name of the XML file written, or <<>>
    status           \* "running", the exit status "0" or "1", or "TypeError"

mapVars  == <<pc, original_lines, new_lines, dp, fi, fj, i, j, ops, mappings, returned>>
normVars == <<text_s, comment_c, disk>>
mainVars == <<mpc, original_path, typed, test_name, num_versions_str,
              num_versions, version_paths, vidx, all_mappings, stats,
              files_read, stderr, written, status>>
vars     == <<app, mapVars, normVars, mainVars>>

---------------------------------------------------------------------------
(* Bounds of the model *)

MaxLen == 3        \* lines per argument of map_lines
MaxS == 3          \* characters of the raw line s
MaxC == 2          \* characters of the comment body c
MaxVersions == 2   \* version files of one run
MaxFileLen == 2    \* lines per file on the disk of appVersion2's run

---------------------------------------------------------------------------
(* Generic helpers *)

SeqsUpTo(S, k) == UNION {[1..len -> S] : len \in 0..k}

Max(a, b) == IF a >= b THEN a ELSE b

Reverse(sq) == [k \in 1..Len(sq) |-> sq[Len(sq) + 1 - k]]

\* Normalized lines used as inputs of map_lines
Lines == {<<"a">>, <<"x">>, <<"b">>}

---------------------------------------------------------------------------
(* Python string operations used by normalize_line and main *)

\* line[a:b] for 0 <= a <= b <= len(line)
Slice(line, a, b) == SubSeq(line, a + 1, b)

OccursAt(line, pat, k) ==
    /\ k + Len(pat) <= Len(line)
    /\ SubSeq(line, k + 1, k + Len(pat)) = pat

\* line.find(pat, from): the lowest offset >= from where pat occurs, or -1
Find(line, pat, from) ==
    LET hits == {k \in from..(Len(line) - Len(pat)) : OccursAt(line, pat, k)}
    IN IF hits = {} THEN -1
       ELSE CHOOSE k \in hits : \A h \in hits : k <= h

\* pat in line
Contains(line, pat) == Find(line, pat, 0) # -1

Whitespace == {" "}

RECURSIVE LStrip(_)
LStrip(line) ==
    IF line # <<>> /\ Head(line) \in Whitespace THEN LStrip(Tail(line)) ELSE line

RECURSIVE RStrip(_)
RStrip(line) ==
    IF line # <<>> /\ line[Len(line)] \in Whitespace
    THEN RStrip(SubSeq(line, 1, Len(line) - 1))
    ELSE line

\* line.strip()
Strip(line) == RStrip(LStrip(line))

---------------------------------------------------------------------------
(* normalize_line and read_lines *)

LineComment == <<"/", "/">>
BlockOpen   == <<"/", "*">>
BlockClose  == <<"*", "/">>

\* if '//' in line: line = line.split('//', 1)[0]
StripLineComment(line) ==
    IF Contains(line, LineComment)
    THEN Slice(line, 0, Find(line, LineComment, 0))
    ELSE line

\* while '/*' in line and '*/' in line: ...
RECURSIVE RemoveBlockCommentsOverlap(_)
RemoveBlockCommentsOverlap(line) ==
    IF Contains(line, BlockOpen) /\ Contains(line, BlockClose)
    THEN LET start == Find(line, BlockOpen, 0)
             end   == Find(line, BlockClose, start)
         IN IF end = -1
            THEN line
            ELSE RemoveBlockCommentsOverlap(
                     Slice(line, 0, start) \o Slice(line, end + 2, Len(line)))
    ELSE line

RECURSIVE RemoveBlockComments(_)
RemoveBlockComments(line) ==
    IF Contains(line, BlockOpen) /\ Contains(line, BlockClose)
    THEN LET start == Find(line, BlockOpen, 0)
             end   == Find(line, BlockClose, start + 2)
         IN IF end = -1
            THEN line
            ELSE RemoveBlockComments(
                     Slice(line, 0, start) \o Slice(line, end + 2, Len(line)))
    ELSE line

normalize_line(line) == Strip(RemoveBlockComments(StripLineComment(line)))

\* open(path) succeeds
Readable(path) == path \in DOMAIN disk

\* norm_lines = [normalize_line(l) for l in raw_lines]
read_lines(path) == [k \in 1..Len(disk[path]) |-> normalize_line(disk[path][k])]

---------------------------------------------------------------------------
(* map_lines of appFinal.py *)

\* dp = [[0] * (m + 1) for _ in range(n + 1)]
ZeroTable(n, m) == [r \in 0..n |-> [c \in 0..m |-> 0]]

\* the value stored in dp[fi + 1][fj + 1] by one iteration of the inner loop
CellValueMin(o, nw, d, a, b) ==
    IF o[a + 1] = nw[b + 1]
    THEN d[a][b] + 1
    ELSE IF d[a][b + 1] <= d[a + 1][b] THEN d[a][b + 1] ELSE d[a + 1][b]

CellValue(o, nw, d, a, b) ==
    IF o[a + 1] = nw[b + 1]
    THEN d[a][b] + 1
    ELSE Max(d[a][b + 1], d[a + 1][b])

\* one iteration of "for j in range(m)" inside "for i in range(n)"
FillCell ==
    /\ pc = "build"
    /\ fi < Len(original_lines)
    /\ fj < Len(new_lines)
    /\ dp' = [dp EXCEPT ![fi + 1][fj + 1] =
                 CellValue(original_lines, new_lines, dp, fi, fj)]
    /\ IF fj + 1 < Len(new_lines)
       THEN fi' = fi /\ fj' = fj + 1
       ELSE fi' = fi + 1 /\ fj' = 0
    /\ UNCHANGED <<pc, original_lines, new_lines, i, j, ops, mappings, returned>>
    /\ UNCHANGED <<app, normVars, mainVars>>

\* both loops are exhausted
TableBuilt == IF fi >= Len(original_lines) THEN TRUE ELSE Len(new_lines) = 0

\* ops = []; i, j = n, m
StartBacktrack ==
    /\ pc = "build"
    /\ app = "appFinal"
    /\ TableBuilt
    /\ ops' = <<>>
    /\ i' = Len(original_lines)
    /\ j' = Len(new_lines)
    /\ pc' = "backtrack"
    /\ UNCHANGED <<original_lines, new_lines, dp, fi, fj, mappings, returned>>
    /\ UNCHANGED <<app, normVars, mainVars>>

\* while i > 0 or j > 0
MoreToBacktrack == IF i > 0 THEN TRUE ELSE j > 0

\* if i > 0 and j > 0 and original_lines[i - 1] == new_lines[j - 1]
IsMatch == i > 0 /\ j > 0 /\ original_lines[i] = new_lines[j]

\* elif j > 0 and (i == 0 or dp[i][j - 1] >= dp[i - 1][j])
\* (written with IF so that "or" short-circuits as in Python)
PrefersInsertStrict ==
    IF j > 0
    THEN (IF i = 0 THEN TRUE ELSE dp[i][j - 1] > dp[i - 1][j])
    ELSE FALSE

PrefersInsert ==
    IF j > 0
    THEN (IF i = 0 THEN TRUE ELSE dp[i][j - 1] >= dp[i - 1][j])
    ELSE FALSE

BtMatchKeepJ ==
    /\ pc = "backtrack"
    /\ MoreToBacktrack
    /\ IsMatch
    /\ ops' = Append(ops, <<"match", i, j>>)
    /\ i' = i - 1
    /\ j' = j
    /\ UNCHANGED <<pc, original_lines, new_lines, dp, fi, fj, mappings, returned>>
    /\ UNCHANGED <<app, normVars, mainVars>>

BtMatch ==
    /\ pc = "backtrack"
    /\ MoreToBacktrack
    /\ IsMatch
    /\ ops' = Append(ops, <<"match", i, j>>)
    /\ i' = i - 1
    /\ j' = j - 1
    /\ UNCHANGED <<pc, original_lines, new_lines, dp, fi, fj, mappings, returned>>
    /\ UNCHANGED <<app, normVars, mainVars>>

BtInsert ==
    /\ pc = "backtrack"
    /\ MoreToBacktrack
    /\ ~IsMatch
    /\ PrefersInsert
    /\ ops' = Append(ops, <<"ins", -1, j>>)
    /\ j' = j - 1
    /\ UNCHANGED <<pc, original_lines, new_lines, dp, fi, fj, i, mappings, returned>>
    /\ UNCHANGED <<app, normVars, mainVars>>

BtDeleteSilent ==
    /\ pc = "backtrack"
    /\ MoreToBacktrack
    /\ ~IsMatch
    /\ ~PrefersInsert
    /\ i' = i - 1
    /\ UNCHANGED <<pc, original_lines, new_lines, dp, fi, fj, j, ops, mappings, returned>>
    /\ UNCHANGED <<app, normVars, mainVars>>

BtDelete ==
    /\ pc = "backtrack"
    /\ MoreToBacktrack
    /\ ~IsMatch
    /\ ~PrefersInsert
    /\ ops' = Append(ops, <<"del", i, -1>>)
    /\ i' = i - 1
    /\ UNCHANGED <<pc, original_lines, new_lines, dp, fi, fj, j, mappings, returned>>
    /\ UNCHANGED <<app, normVars, mainVars>>

\* the conversion loop: match -> (oi, nj), del -> (oi, -1), ins -> (-1, nj)
ToMappingTypo(op) ==
    IF op[1] = "match" THEN <<op[2], op[3]>>
    ELSE IF op[1] = "delete" THEN <<op[2], -1>>
    ELSE <<-1, op[3]>>

ToMapping(op) ==
    IF op[1] = "match" THEN <<op[2], op[3]>>
    ELSE IF op[1] = "del" THEN <<op[2], -1>>
    ELSE <<-1, op[3]>>

\* ops.reverse(), the conversion loop, return mappings
ConvertNoReverse ==
    /\ pc = "backtrack"
    /\ ~MoreToBacktrack
    /\ ops' = ops
    /\ mappings' = [k \in 1..Len(ops) |-> ToMapping(ops[k])]
    /\ returned' = "list"
    /\ pc' = "done"
    /\ UNCHANGED <<original_lines, new_lines, dp, fi, fj, i, j>>
    /\ UNCHANGED <<app, normVars, mainVars>>

Convert ==
    /\ pc = "backtrack"
    /\ ~MoreToBacktrack
    /\ ops' = Reverse(ops)
    /\ mappings' = [k \in 1..Len(ops) |-> ToMapping(Reverse(ops)[k])]
    /\ returned' = "list"
    /\ pc' = "done"
    /\ UNCHANGED <<original_lines, new_lines, dp, fi, fj, i, j>>
    /\ UNCHANGED <<app, normVars, mainVars>>

\* the state of map_lines on entry, for given arguments
EnterMapLines(o, nw) ==
    /\ original_lines' = o
    /\ new_lines' = nw
    /\ dp' = ZeroTable(Len(o), Len(nw))
    /\ fi' = 0
    /\ fj' = 0
    /\ i' = 0
    /\ j' = 0
    /\ ops' = <<>>
    /\ mappings' = <<>>
    /\ returned' = "pending"
    /\ pc' = "build"

---------------------------------------------------------------------------
(* main of appFinal.py *)

\* what can be typed at the prompts
PathInputs  == {<<>>, <<" ">>, <<"o">>, <<" ", "v">>, <<"m">>}
NameInputs  == {<<>>, <<" ">>, <<"T", "1">>, <<"T", "/">>}
CountChars  == {"0", "1", "2", "3", "-", "x"}
Digits      == {"0", "1", "2", "3", "4", "5", "6", "7", "8", "9"}

DigitValue(ch) ==
    CASE ch = "0" -> 0 [] ch = "1" -> 1 [] ch = "2" -> 2 [] ch = "3" -> 3
      [] ch = "4" -> 4 [] ch = "5" -> 5 [] ch = "6" -> 6 [] ch = "7" -> 7
      [] ch = "8" -> 8 [] ch = "9" -> 9

RECURSIVE DecimalValue(_)
DecimalValue(ds) ==
    IF ds = <<>> THEN 0
    ELSE 10 * DecimalValue(SubSeq(ds, 1, Len(ds) - 1)) + DigitValue(ds[Len(ds)])

AllDigits(ds) == ds # <<>> /\ \A k \in DOMAIN ds : ds[k] \in Digits

\* int(text) raises ValueError
IntRaises(text) ==
    IF text # <<>> /\ text[1] \in {"-", "+"}
    THEN ~AllDigits(Tail(text))
    ELSE ~AllDigits(text)

\* int(text), when it does not raise
IntValue(text) ==
    IF text[1] = "-" THEN 0 - DecimalValue(Tail(text))
    ELSE IF text[1] = "+" THEN DecimalValue(Tail(text))
    ELSE DecimalValue(text)

\* the count strings the model types: at most MaxVersions versions
CountInputs ==
    {t \in SeqsUpTo(CountChars, 2) :
        IF IntRaises(Strip(t)) THEN TRUE ELSE IntValue(Strip(t)) <= MaxVersions}

DefaultTestName == <<"T", "E", "S", "T">>

\* c.isalnum() or c in "-_"
SafeChar(ch) ==
    ch \in Digits \union {"T", "E", "S", "o", "v", "m", "a", "x", "b"} \union {"-", "_"}

\* os.path.basename(path): the part after the last "/"
RECURSIVE Basename(_)
Basename(path) ==
    IF Contains(path, <<"/">>)
    THEN Basename(Slice(path, Find(path, <<"/">>, 0) + 1, Len(path)))
    ELSE path

Exit(code, message) ==
    /\ status' = code
    /\ stderr' = IF message = "" THEN stderr ELSE Append(stderr, message)
    /\ mpc' = "exit"

\* 1) Original file path
AskOriginal ==
    /\ mpc = "ask_original"
    /\ \E answer \in PathInputs :
          /\ original_path' = Strip(answer)
          /\ typed' = Append(typed, Strip(answer))
          /\ IF Strip(answer) = <<>>
             THEN Exit("1", "ORIGINAL file path is required")
             ELSE /\ mpc' = "ask_name"
                  /\ UNCHANGED <<status, stderr>>
    /\ UNCHANGED <<test_name, num_versions_str, num_versions,
                   version_paths, vidx, all_mappings, stats, files_read, written>>
    /\ UNCHANGED <<app, mapVars, normVars>>

\* 2) TEST name
AskName ==
    /\ mpc = "ask_name"
    /\ \E answer \in NameInputs :
          /\ typed' = Append(typed, Strip(answer))
          /\ test_name' = IF Strip(answer) = <<>> THEN DefaultTestName ELSE Strip(answer)
    /\ mpc' = "ask_count"
    /\ UNCHANGED <<original_path, num_versions_str, num_versions, version_paths,
                   vidx, all_mappings, stats, files_read, stderr, written, status>>
    /\ UNCHANGED <<app, mapVars, normVars>>

\* if num_versions <= 0: raise ValueError
CountRejectedNegativeOnly(text) ==
    IF IntRaises(text) THEN TRUE ELSE IntValue(text) < 0

CountRejected(text) ==
    IF IntRaises(text) THEN TRUE ELSE IntValue(text) <= 0

\* 3) Number of versions to compare
AskCount ==
    /\ mpc = "ask_count"
    /\ \E answer \in CountInputs :
          /\ num_versions_str' = Strip(answer)
          /\ typed' = Append(typed, Strip(answer))
          /\ IF CountRejected(Strip(answer))
             THEN /\ Exit("1", "number of versions must be a positive integer")
                  /\ num_versions' = IF IntRaises(Strip(answer))
                                     THEN num_versions
                                     ELSE IntValue(Strip(answer))
                  /\ UNCHANGED version_paths
             ELSE /\ num_versions' = IntValue(Strip(answer))
                  /\ version_paths' = <<>>
                  /\ mpc' = IF IntValue(Strip(answer)) > 0
                            THEN "ask_paths" ELSE "read_original"
                  /\ UNCHANGED <<status, stderr>>
    /\ UNCHANGED <<original_path, test_name, vidx, all_mappings,
                   stats, files_read, written>>
    /\ UNCHANGED <<app, mapVars, normVars>>

\* 4) Paths of version files: one iteration of "for i in range(num_versions)"
AskVersionPath ==
    /\ mpc = "ask_paths"
    /\ \E answer \in PathInputs :
          /\ typed' = Append(typed, Strip(answer))
          /\ IF Strip(answer) = <<>>
             THEN /\ Exit("1", "empty path is not allowed")
                  /\ UNCHANGED version_paths
             ELSE /\ version_paths' = Append(version_paths, Strip(answer))
                  /\ mpc' = IF Len(version_paths) + 1 < num_versions
                            THEN "ask_paths" ELSE "read_original"
                  /\ UNCHANGED <<status, stderr>>
    /\ UNCHANGED <<original_path, test_name, num_versions_str,
                   num_versions, vidx, all_mappings, stats, files_read, written>>
    /\ UNCHANGED <<app, mapVars, normVars>>

\* original_lines = read_lines(original_path)
ReadOriginal ==
    /\ mpc = "read_original"
    /\ files_read' = Append(files_read, original_path)
    /\ IF Readable(original_path)
       THEN /\ original_lines' = read_lines(original_path)
            /\ all_mappings' = <<>>
            /\ vidx' = 0
            /\ mpc' = IF Len(version_paths) > 0 THEN "read_version" ELSE "write"
            /\ UNCHANGED <<status, stderr>>
       ELSE /\ Exit("1", "Failed to open for reading")
            /\ UNCHANGED <<original_lines, all_mappings, vidx>>
    /\ UNCHANGED <<pc, new_lines, dp, fi, fj, i, j, ops, mappings, returned>>
    /\ UNCHANGED <<original_path, typed, test_name, num_versions_str,
                   num_versions, version_paths, stats, written>>
    /\ UNCHANGED <<app, normVars>>

\* new_lines = read_lines(vpath); the call map_lines(original_lines, new_lines)
ReadVersion ==
    /\ mpc = "read_version"
    /\ files_read' = Append(files_read, version_paths[vidx + 1])
    /\ IF Readable(version_paths[vidx + 1])
       THEN /\ EnterMapLines(original_lines, read_lines(version_paths[vidx + 1]))
            /\ mpc' = "in_map_lines"
            /\ UNCHANGED <<status, stderr>>
       ELSE /\ Exit("1", "Failed to open for reading")
            /\ UNCHANGED mapVars
    /\ UNCHANGED <<original_path, typed, test_name, num_versions_str,
                   num_versions, version_paths, vidx, all_mappings, stats, written>>
    /\ UNCHANGED <<app, normVars>>

\* matched / removed / added
Stats(mp) ==
    [matched |-> Cardinality({k \in DOMAIN mp : mp[k][1] > 0 /\ mp[k][2] > 0}),
     removed |-> Cardinality({k \in DOMAIN mp : mp[k][1] > 0 /\ mp[k][2] = -1}),
     added   |-> Cardinality({k \in DOMAIN mp : mp[k][1] = -1 /\ mp[k][2] > 0})]

\* map_lines has returned: all_mappings.append(mappings), the counts, the print
CollectMappings ==
    /\ mpc = "in_map_lines"
    /\ app = "appFinal"
    /\ pc = "done"
    /\ all_mappings' = Append(all_mappings, mappings)
    /\ stats' = Append(stats, Stats(mappings))
    /\ vidx' = vidx + 1
    /\ mpc' = IF vidx + 1 < Len(version_paths) THEN "read_version" ELSE "write"
    /\ pc' = "idle"
    /\ UNCHANGED <<original_lines, new_lines, dp, fi, fj, i, j, ops, mappings, returned>>
    /\ UNCHANGED <<original_path, typed, test_name, num_versions_str,
                   num_versions, version_paths, files_read, stderr, written, status>>
    /\ UNCHANGED <<app, normVars>>

\* build_xml
build_xml ==
    [NAME     |-> test_name,
     FILE     |-> Basename(original_path),
     VERSIONS |-> [k \in 1..Len(all_mappings) |->
                      [NUMBER |-> k, CHECKED |-> "TRUE", LOCATIONS |-> all_mappings[k]]]]

\* safe_test and output_filename
OutputFilename ==
    LET safe == [k \in 1..Len(test_name) |->
                    IF SafeChar(test_name[k]) THEN test_name[k] ELSE "_"]
    IN (IF safe = <<>> THEN DefaultTestName ELSE safe) \o <<".", "x", "m", "l">>

\* the XML file is written
WriteXml ==
    /\ mpc = "write"
    /\ written' = [name |-> OutputFilename, root |-> build_xml]
    /\ Exit("0", "")
    /\ UNCHANGED <<original_path, typed, test_name, num_versions_str,
                   num_versions, version_paths, vidx, all_mappings, stats, files_read>>
    /\ UNCHANGED <<app, mapVars, normVars>>

\* open(output_filename, "wb") or the write raises OSError
WriteXmlFails ==
    /\ mpc = "write"
    /\ Exit("1", "Failed to write XML file")
    /\ UNCHANGED <<original_path, typed, test_name, num_versions_str,
                   num_versions, version_paths, vidx, all_mappings, stats,
                   files_read, written>>
    /\ UNCHANGED <<app, mapVars, normVars>>

---------------------------------------------------------------------------
(* appVersion2.py: map_lines and the loop of main that uses its result *)

None == "None"

\* the table construction of appVersion2.map_lines (the same loops)
V2BuildTable == app = "appVersion2" /\ FillCell

\* appVersion2.map_lines ends after the table loops: no return statement
V2ReturnNone ==
    /\ pc = "build"
    /\ app = "appVersion2"
    /\ TableBuilt
    /\ returned' = None
    /\ pc' = "done"
    /\ UNCHANGED <<original_lines, new_lines, dp, fi, fj, i, j, ops, mappings>>
    /\ UNCHANGED <<app, normVars, mainVars>>

\* original_lines = read_lines(original_path)
V2ReadOriginal == app = "appVersion2" /\ ReadOriginal

\* new_lines = read_lines(vpath); mappings = map_lines(original_lines, new_lines)
V2ReadVersion == app = "appVersion2" /\ ReadVersion

\* matched = sum(1 for (_, new_num) in mappings if new_num != -1)
V2Stats(mp) ==
    LET matched == Cardinality({k \in DOMAIN mp : mp[k][2] # -1})
    IN [matched |-> matched, changed |-> Len(mp) - matched]

\* all_mappings.append(mappings); the count iterates over mappings
V2CollectMappings ==
    /\ mpc = "in_map_lines"
    /\ app = "appVersion2"
    /\ pc = "done"
    /\ all_mappings' = Append(all_mappings, IF returned = None THEN None ELSE mappings)
    /\ pc' = "idle"
    /\ IF returned = None
       THEN \* TypeError: 'NoneType' object is not iterable, not caught
            /\ status' = "TypeError"
            /\ stderr' = Append(stderr, "Traceback: TypeError")
            /\ mpc' = "exit"
            /\ UNCHANGED <<stats, vidx>>
       ELSE /\ stats' = Append(stats, V2Stats(mappings))
            /\ vidx' = vidx + 1
            /\ mpc' = IF vidx + 1 < Len(version_paths) THEN "read_version" ELSE "write"
            /\ UNCHANGED <<status, stderr>>
    /\ UNCHANGED <<original_lines, new_lines, dp, fi, fj, i, j, ops, mappings, returned>>
    /\ UNCHANGED <<original_path, typed, test_name, num_versions_str,
                   num_versions, version_paths, files_read, written>>
    /\ UNCHANGED <<app, normVars>>

---------------------------------------------------------------------------
(* Values of the variables a specification does not use *)

IdleNorm ==
    /\ text_s = <<>>
    /\ comment_c = <<>>
    /\ disk = <<>>

IdleMain ==
    /\ mpc = "idle"
    /\ original_path = <<>>
    /\ typed = <<>>
    /\ test_name = <<>>
    /\ num_versions_str = <<>>
    /\ num_versions = 0
    /\ version_paths = <<>>
    /\ vidx = 0
    /\ all_mappings = <<>>
    /\ stats = <<>>
    /\ files_read = <<>>
    /\ stderr = <<>>
    /\ written = <<>>
    /\ status = "running"

---------------------------------------------------------------------------
(* Spec: appFinal.map_lines applied to every pair of line sequences *)

Init ==
    /\ app = "appFinal"
    /\ original_lines \in SeqsUpTo(Lines, MaxLen)
    /\ new_lines \in SeqsUpTo(Lines, MaxLen)
    /\ dp = ZeroTable(Len(original_lines), Len(new_lines))
    /\ fi = 0
    /\ fj = 0
    /\ i = 0
    /\ j = 0
    /\ ops = <<>>
    /\ mappings = <<>>
    /\ returned = "pending"
    /\ pc = "build"
    /\ IdleNorm
    /\ IdleMain

Next == FillCell \/ StartBacktrack \/ BtMatch \/ BtInsert \/ BtDelete \/ Convert

Spec == Init /\ [][Next]_vars

---------------------------------------------------------------------------
(* SpecNorm: a run of appFinal past its prompts, on an original file holding *)
(* the line s + "/*" + c + "*/" and a version file holding the line s        *)

Chars == {"/", "*", "a", " "}

PathO == <<"o">>
PathV == <<"v">>

PromptsAnswered ==
    /\ original_path = PathO
    /\ typed = <<PathO, <<"T", "1">>, <<"1">>, PathV>>
    /\ test_name = <<"T", "1">>
    /\ num_versions_str = <<"1">>
    /\ num_versions = 1
    /\ version_paths = <<PathV>>
    /\ vidx = 0
    /\ all_mappings = <<>>
    /\ stats = <<>>
    /\ files_read = <<>>
    /\ stderr = <<>>
    /\ written = <<>>
    /\ status = "running"
    /\ mpc = "read_original"

MapLinesIdle ==
    /\ pc = "idle"
    /\ original_lines = <<>>
    /\ new_lines = <<>>
    /\ dp = ZeroTable(0, 0)
    /\ fi = 0
    /\ fj = 0
    /\ i = 0
    /\ j = 0
    /\ ops = <<>>
    /\ mappings = <<>>
    /\ returned = "pending"

InitNorm ==
    /\ app = "appFinal"
    /\ text_s \in SeqsUpTo(Chars, MaxS)
    /\ comment_c \in {c \in SeqsUpTo(Chars, MaxC) : ~Contains(c, BlockClose)}
    /\ disk = (PathO :> <<text_s \o BlockOpen \o comment_c \o BlockClose>>)
              @@ (PathV :> <<text_s>>)
    /\ MapLinesIdle
    /\ PromptsAnswered

NextNorm ==
    \/ ReadOriginal \/ ReadVersion
    \/ FillCell \/ StartBacktrack \/ BtMatch \/ BtInsert \/ BtDelete \/ Convert
    \/ CollectMappings \/ WriteXml \/ WriteXmlFails

SpecNorm == InitNorm /\ [][NextNorm]_vars

---------------------------------------------------------------------------
(* SpecMain: a whole run of appFinal, from its first prompt *)

\* the files of the run: "o" and "v" exist, any other path does not
MainDisk ==
    (PathO :> << <<"a">>, <<"x", " ", "/", "/", "a">>, <<"b">> >>)
    @@ (PathV :> << <<"x">>, <<"/", "*", "a", "*", "/", "b">> >>)

InitMain ==
    /\ app = "appFinal"
    /\ text_s = <<>>
    /\ comment_c = <<>>
    /\ disk = MainDisk
    /\ MapLinesIdle
    /\ mpc = "ask_original"
    /\ original_path = <<>>
    /\ typed = <<>>
    /\ test_name = <<>>
    /\ num_versions_str = <<>>
    /\ num_versions = 0
    /\ version_paths = <<>>
    /\ vidx = 0
    /\ all_mappings = <<>>
    /\ stats = <<>>
    /\ files_read = <<>>
    /\ stderr = <<>>
    /\ written = <<>>
    /\ status = "running"

NextMain ==
    \/ AskOriginal \/ AskName \/ AskCount \/ AskVersionPath
    \/ ReadOriginal \/ ReadVersion
    \/ FillCell \/ StartBacktrack \/ BtMatch \/ BtInsert \/ BtDelete \/ Convert
    \/ CollectMappings \/ WriteXml \/ WriteXmlFails

SpecMain == InitMain /\ [][NextMain]_vars

---------------------------------------------------------------------------
(* SpecV2: a run of appVersion2 past its prompts, on every pair of files *)

RawLines == {<<"a">>, <<"x">>, <<"x", " ">>, <<"/", "/", "a">>}

InitV2 ==
    /\ app = "appVersion2"
    /\ text_s = <<>>
    /\ comment_c = <<>>
    /\ disk \in [{PathO, PathV} -> SeqsUpTo(RawLines, MaxFileLen)]
    /\ MapLinesIdle
    /\ PromptsAnswered

NextV2 ==
    \/ V2ReadOriginal \/ V2ReadVersion
    \/ V2BuildTable \/ V2ReturnNone
    \/ V2CollectMappings

SpecV2 == InitV2 /\ [][NextV2]_vars

---------------------------------------------------------------------------
(* Properties of appFinal.map_lines, checked under Spec *)

n_orig == Len(original_lines)
m_new  == Len(new_lines)

Returned == pc = "done" /\ returned = "list"

IsMatchEntry(e)  == e[1] > 0 /\ e[2] > 0
IsDeleteEntry(e) == e[1] > 0 /\ e[2] = -1
IsInsertEntry(e) == e[1] = -1 /\ e[2] > 0

MatchIdx  == {k \in DOMAIN mappings : IsMatchEntry(mappings[k])}
DeleteIdx == {k \in DOMAIN mappings : IsDeleteEntry(mappings[k])}
InsertIdx == {k \in DOMAIN mappings : IsInsertEntry(mappings[k])}

\* C1: in the returned list the first components other than -1 are exactly
\* the positions 1..n, each exactly once, and the second components other
\* than -1 are exactly the positions 1..m, each exactly once.
C1_Partition ==
    Returned =>
        /\ \A k \in DOMAIN mappings :
              /\ mappings[k][1] = -1 \/ mappings[k][1] \in 1..n_orig
              /\ mappings[k][2] = -1 \/ mappings[k][2] \in 1..m_new
        /\ \A p \in 1..n_orig :
              Cardinality({k \in DOMAIN mappings : mappings[k][1] = p}) = 1
        /\ \A q \in 1..m_new :
              Cardinality({k \in DOMAIN mappings : mappings[k][2] = q}) = 1

C1_Witness ==
    /\ Returned
    /\ n_orig >= 2 /\ m_new >= 2
    /\ MatchIdx # {} /\ DeleteIdx # {} /\ InsertIdx # {}

\* the lines of o at the positions in I, in order
SubAt(o, I) ==
    LET F[k \in 0..Len(o)] ==
            IF k = 0 THEN <<>>
            ELSE IF k \in I THEN Append(F[k - 1], o[k]) ELSE F[k - 1]
    IN F[Len(o)]

RECURSIVE IsSubseq(_, _)
IsSubseq(a, b) ==
    IF a = <<>> THEN TRUE
    ELSE IF b = <<>> THEN FALSE
    ELSE IF Head(a) = Head(b) THEN IsSubseq(Tail(a), Tail(b))
    ELSE IsSubseq(a, Tail(b))

\* length of a longest common subsequence, by enumeration
LCSLength(o, nw) ==
    LET common == {I \in SUBSET (1..Len(o)) : IsSubseq(SubAt(o, I), nw)}
    IN CHOOSE c \in 0..Len(o) :
          /\ \E I \in common : Cardinality(I) = c
          /\ \A I \in common : Cardinality(I) <= c

\* C2: the Match entries form a longest common subsequence: matched lines
\* are equal, matched pairs keep their order in both files, and their number
\* is the LCS length of the two inputs, which is dp[n][m].
C2_MatchesAreLCS ==
    Returned =>
        /\ \A k \in MatchIdx :
              original_lines[mappings[k][1]] = new_lines[mappings[k][2]]
        /\ \A k, l \in MatchIdx :
              k < l => /\ mappings[k][1] < mappings[l][1]
                       /\ mappings[k][2] < mappings[l][2]
        /\ Cardinality(MatchIdx) = LCSLength(original_lines, new_lines)
        /\ Cardinality(MatchIdx) = dp[n_orig][m_new]

C2_Witness ==
    /\ Returned
    /\ Cardinality(MatchIdx) = 2
    /\ n_orig = 3 /\ m_new = 3
    /\ \E k \in MatchIdx : mappings[k][1] # mappings[k][2]

\* C3: reading the list left to right, the original positions of Match and
\* Delete entries strictly increase and the new positions of Match and
\* Insert entries strictly increase.
C3_ForwardOrder ==
    Returned =>
        \A k, l \in DOMAIN mappings :
            k < l =>
              /\ (mappings[k][1] # -1 /\ mappings[l][1] # -1)
                    => mappings[k][1] < mappings[l][1]
              /\ (mappings[k][2] # -1 /\ mappings[l][2] # -1)
                    => mappings[k][2] < mappings[l][2]

C3_Witness ==
    /\ Returned
    /\ Len(mappings) >= 4
    /\ Cardinality(DeleteIdx) >= 2
    /\ Cardinality(InsertIdx) >= 1
    /\ Cardinality(MatchIdx) >= 1

NoSharedLine ==
    \A a \in DOMAIN original_lines : \A b \in DOMAIN new_lines :
        original_lines[a] # new_lines[b]

\* C4: when the inputs share no line (n = 0 and m = 0 included) the result
\* has no Match entry, its Delete entries are (1,-1), ..., (n,-1) in this
\* order and its Insert entries are (-1,1), ..., (-1,m) in this order;
\* [] against [X, Y] gives [(-1,1), (-1,2)] and [X] against [] gives [(1,-1)].
C4_TotalReplacement ==
    (Returned /\ NoSharedLine) =>
        /\ MatchIdx = {}
        /\ Len(mappings) = n_orig + m_new
        /\ SelectSeq(mappings, IsDeleteEntry) = [k \in 1..n_orig |-> <<k, -1>>]
        /\ SelectSeq(mappings, IsInsertEntry) = [k \in 1..m_new |-> <<-1, k>>]
        /\ (n_orig = 0 /\ m_new = 2) => mappings = << <<-1, 1>>, <<-1, 2>> >>
        /\ (n_orig = 1 /\ m_new = 0) => mappings = << <<1, -1>> >>

C4_Witness ==
    /\ Returned
    /\ NoSharedLine
    /\ n_orig = 2 /\ m_new = 2
    /\ original_lines[1] # original_lines[2]

\* C5: map_lines(s, s) returns exactly [(1,1), ..., (n,n)], also when s
\* holds repeated equal lines.
C5_Identity ==
    (Returned /\ original_lines = new_lines) =>
        mappings = [k \in 1..n_orig |-> <<k, k>>]

C5_Witness ==
    /\ Returned
    /\ original_lines = new_lines
    /\ n_orig = 3
    /\ original_lines[1] = original_lines[2]
    /\ mappings = << <<1, 1>>, <<2, 2>>, <<3, 3>> >>

TieCell ==
    /\ pc = "backtrack"
    /\ i > 0 /\ j > 0
    /\ original_lines[i] # new_lines[j]
    /\ dp[i][j - 1] = dp[i - 1][j]

\* C9: at a backtracking cell (i, j) with i > 0, j > 0, different lines and
\* dp[i][j-1] = dp[i-1][j], the step emits Insert(j) and moves to (i, j-1);
\* and [a, x] against [x, a] always returns [(1,-1), (2,1), (-1,2)].
C9_TieBreak ==
    /\ [][TieCell => /\ ops' = Append(ops, <<"ins", -1, j>>)
                     /\ i' = i
                     /\ j' = j - 1]_vars
    /\ [](( /\ Returned
            /\ original_lines = << <<"a">>, <<"x">> >>
            /\ new_lines = << <<"x">>, <<"a">> >> )
          => mappings = << <<1, -1>>, <<2, 1>>, <<-1, 2>> >>)

C9_Witness ==
    /\ Returned
    /\ original_lines = << <<"a">>, <<"x">> >>
    /\ new_lines = << <<"x">>, <<"a">> >>
    /\ ops = << <<"del", 1, -1>>, <<"match", 2, 1>>, <<"ins", -1, 2>> >>

\* C10: in the returned list an Insert entry is never immediately followed
\* by a Delete entry, so within a run of non-Match entries all Delete
\* entries come before all Insert entries.
C10_DeletesBeforeInserts ==
    Returned =>
        /\ \A k \in 1..(Len(mappings) - 1) :
              ~(IsInsertEntry(mappings[k]) /\ IsDeleteEntry(mappings[k + 1]))
        /\ \A k, l \in DOMAIN mappings :
              (/\ k < l
               /\ IsInsertEntry(mappings[k])
               /\ IsDeleteEntry(mappings[l]))
              => \E q \in (k + 1)..(l - 1) : IsMatchEntry(mappings[q])

C10_Witness ==
    /\ Returned
    /\ \E k \in 1..(Len(mappings) - 1) :
          /\ IsDeleteEntry(mappings[k])
          /\ IsInsertEntry(mappings[k + 1])
    /\ MatchIdx # {}
    /\ Cardinality(DeleteIdx) + Cardinality(InsertIdx) >= 3

---------------------------------------------------------------------------
(* Comment stripping, checked under SpecNorm: the original file holds the *)
(* line s + "/*" + c + "*/" and the version file holds the line s         *)

MapLinesReturned == returned = "list"

SameLineAndMatch ==
    /\ original_lines[1] = new_lines[1]
    /\ mappings = << <<1, 1>> >>

\* C6 as stated: for any text s and any comment body c without the close
\* marker, normalize_line(s + "/*" + c + "*/") equals normalize_line(s) and
\* the two lines align as a Match.
C6_AnyTextAnyBody == MapLinesReturned => SameLineAndMatch

EndsWithSlash(line) == line # <<>> /\ line[Len(line)] = "/"

\* s is cut at its own "//", or else: c holds no "//", s does not end
\* with "/", and the normalized s keeps no "/*" (no unclosed opener)
C6_Covered ==
    IF Contains(text_s, LineComment) THEN TRUE
    ELSE /\ ~Contains(comment_c, LineComment)
         /\ ~EndsWithSlash(text_s)
         /\ ~Contains(new_lines[1], BlockOpen)

\* C6 (amended): normalize_line(s + "/*" + c + "*/") equals normalize_line(s)
\* and the two lines align as a Match, for every s that contains "//", and
\* for every s and c (c without "*/") such that c contains no "//", s does
\* not end with "/" and normalize_line(s) contains no "/*".
C6_CommentStripped == (MapLinesReturned /\ C6_Covered) => SameLineAndMatch

C6_Witness ==
    /\ MapLinesReturned
    /\ C6_Covered
    /\ ~Contains(text_s, LineComment)
    /\ text_s = <<" ", "a", " ">>
    /\ comment_c = <<"a", " ">>
    /\ original_lines = << <<"a">> >>
    /\ mappings = << <<1, 1>> >>

---------------------------------------------------------------------------
(* Input errors of main, checked under SpecMain *)

\* a count answer that is not an integer or is not positive
BadCount(text) == IF IntRaises(text) THEN TRUE ELSE IntValue(text) <= 0

EmptyOriginalPath == Len(typed) >= 1 /\ typed[1] = <<>>
EmptyTestName     == Len(typed) >= 2 /\ typed[2] = <<>>
BadVersionCount   == Len(typed) >= 3 /\ BadCount(typed[3])
EmptyVersionPath  == \E k \in 4..Len(typed) : typed[k] = <<>>

\* reported, non-zero status, and nothing read, aligned or written
AbortedBeforeAnyWork ==
    /\ mpc = "exit"
    /\ status = "1"
    /\ stderr # <<>>
    /\ files_read = <<>>
    /\ pc = "idle" /\ returned = "pending"
    /\ all_mappings = <<>>
    /\ written = <<>>

\* C7 as stated: an empty original path, an empty version path, an empty
\* TEST name or a non-positive or non-integer count is reported at once and
\* aborts the run with a non-zero status before any file is read, any
\* alignment is computed or any output is written.
C7_EveryEmptyInputAborts ==
    (EmptyOriginalPath \/ EmptyTestName \/ BadVersionCount \/ EmptyVersionPath)
        => AbortedBeforeAnyWork

\* C7 (amended): an empty original path, an empty version path or a
\* non-positive or non-integer count is reported at once and aborts the run
\* with a non-zero status before any file is read, any alignment is computed
\* or any output is written; an empty TEST name is not an error: the name
\* becomes "TEST" and the run goes on to the count prompt.
C7_InputErrorsAbort ==
    /\ (EmptyOriginalPath \/ BadVersionCount \/ EmptyVersionPath)
          => AbortedBeforeAnyWork
    /\ (Len(typed) = 2 /\ typed[2] = <<>>)
          => /\ mpc = "ask_count"
             /\ status = "running"
             /\ stderr = <<>>
             /\ test_name = DefaultTestName

C7_Witness ==
    /\ Len(typed) = 5
    /\ typed[2] = <<>>
    /\ typed[3] = <<"0", "2">>
    /\ typed[4] = <<"v">>
    /\ typed[5] = <<>>
    /\ test_name = DefaultTestName
    /\ AbortedBeforeAnyWork

---------------------------------------------------------------------------
(* appVersion2.map_lines, checked under SpecV2 *)

\* C8: appVersion2.map_lines returns a list of 1-based (original, new) pairs
\* with an entry for each original line, whose second component is a line
\* of the new file or -1, and main iterates over it without failing.
C8_ReturnsPairsForEveryLine ==
    /\ pc = "done" =>
          /\ returned = "list"
          /\ \A p \in 1..Len(original_lines) :
                \E k \in DOMAIN mappings :
                    /\ mappings[k][1] = p
                    /\ mappings[k][2] = -1 \/ mappings[k][2] \in 1..Len(new_lines)
    /\ status # "TypeError"

====
